---- MODULE Spec2Model ----
(***************************************************************************)
(* Model of the chat gateway of myApp/views.py: the lazily built, process  *)
(* wide OpenAI client cache (_get_openai_client), the reply resolver       *)
(* (_llm_reply), the chat handler (chatbot_response) and the health probe  *)
(* (chat_health) with its credential mask (_mask).                         *)
(*                                                                         *)
(* Strings are sequences of one-character strings; a character outside    *)
(* ASCII is written "U+" and its code point.  The two markers of _mask,    *)
(* the apology and the debug prefix of _llm_reply are spelled out          *)
(* character by character because they are compared with, or joined to,   *)
(* other strings; the fixed texts that are only ever passed on whole are   *)
(* abbreviated to one token each.                                          *)
(***************************************************************************)
EXTENDS Integers, Sequences, FiniteSets, TLC

\* ------------------------------------------------------------------ bounds
NumThreads == 3
MaxKeyLen == 10
MaxMsgLen == 2

Threads == 1..NumThreads

\* ----------------------------------------------------------------- strings
Empty == << >>

\* the characters str.strip() removes: those for which str.isspace() holds
\* (U+0009..U+000D, U+001C..U+001F, U+0020, U+0085, U+00A0, U+1680,
\* U+2000..U+200A, U+2028, U+2029, U+202F, U+205F, U+3000)
Whitespace ==
    {" ", "\t", "\n", "\r", "\f", "U+000B", "U+001C", "U+001D", "U+001E",
     "U+001F", "U+0085", "U+00A0", "U+1680", "U+2000", "U+2001", "U+2002",
     "U+2003", "U+2004", "U+2005", "U+2006", "U+2007", "U+2008", "U+2009",
     "U+200A", "U+2028", "U+2029", "U+202F", "U+205F", "U+3000"}

RECURSIVE LStrip(_)
LStrip(s) ==
    IF s # Empty /\ Head(s) \in Whitespace THEN LStrip(Tail(s)) ELSE s

RECURSIVE RStrip(_)
RStrip(s) ==
    IF s # Empty /\ s[Len(s)] \in Whitespace
    THEN RStrip(SubSeq(s, 1, Len(s) - 1))
    ELSE s

\* str.strip(): leading and trailing whitespace removed
Strip(s) == RStrip(LStrip(s))

\* Python truthiness of a str
Truthy(s) == s # Empty

\* a or b, on strings
OrElse(a, b) == IF Truthy(a) THEN a ELSE b

\* s[:n]
Prefix(s, n) == SubSeq(s, 1, IF n < Len(s) THEN n ELSE Len(s))

\* s[-n:]
Suffix(s, n) == SubSeq(s, IF Len(s) > n THEN Len(s) - n + 1 ELSE 1, Len(s))

\* all strings over the characters cs of length at most n
RECURSIVE StringsUpTo(_, _)
StringsUpTo(cs, n) ==
    IF n = 0 THEN {Empty}
    ELSE LET shorter == StringsUpTo(cs, n - 1)
         IN  shorter \cup {Append(s, c) : s \in shorter, c \in cs}

\* ------------------------------------------------------------ fixed texts
MaskLong == 8
MaskKeep == 4
Ellipsis == <<"U+2026">>
SetMarker == <<"(", "s", "e", "t", ")">>
MissingMarker == <<"(", "m", "i", "s", "s", "i", "n", "g", ")">>

OfflineFallback == <<"Got it. I don't have my full AI brain connected yet. ...">>
BlankedLine == <<"I blanked for a sec-mind asking that one more time?">>
\* the text before {e} in the f-string of line 196
DebugPrefix ==
    <<"(", "D", "E", "B", "U", "G", ")", " ", "O", "p", "e", "n", "A", "I",
      " ", "e", "r", "r", "o", "r", ":", " ">>
\* the literal of lines 197-198
SnagApology ==
    <<"I", " ", "h", "i", "t", " ", "a", " ", "s", "n", "a", "g", " ", "r",
      "e", "a", "c", "h", "i", "n", "g", " ", "m", "y", " ", "b", "r", "a",
      "i", "n", ".", " ", "W", "a", "n", "t", " ", "t", "o", " ", "t", "r",
      "y", " ", "a", "g", "a", "i", "n", ",", " ", "o", "r", " ", "t", "e",
      "l", "l", " ", "m", "e", " ", "t", "h", "e", " ", "s", "h", "o", "r",
      "t", " ", "v", "e", "r", "s", "i", "o", "n", " ", "a", "n", "d", " ",
      "I", "U+2019", "l", "l", " ", "h", "e", "l", "p", "?">>
NudgeReply == <<"What's on your mind?">>
InvalidJson == <<"Invalid JSON">>
SYSTEM_PROMPT == <<"You are Liora ...">>

\* ------------------------------------------------------------------ _mask
\* a plausible slip: one character too many is kept in front
MaskMut(s) ==
    IF Truthy(s) /\ Len(s) > MaskLong
    THEN Prefix(s, MaskKeep + 1) \o Ellipsis \o Suffix(s, MaskKeep)
    ELSE IF Truthy(s) THEN SetMarker ELSE MissingMarker

\* line 38: the first and last 4 characters of a credential of more than 8,
\* "(set)" for a shorter one, "(missing)" for none
Mask(s) ==
    IF Truthy(s) /\ Len(s) > MaskLong
    THEN Prefix(s, MaskKeep) \o Ellipsis \o Suffix(s, MaskKeep)
    ELSE IF Truthy(s) THEN SetMarker ELSE MissingMarker

\* ------------------------------------------------------------ input sets
KeyAlphabet == <<"a", "b", "c", "d", "U+2026">>

\* the credential of length n whose i-th character is the (i+v)-th of the
\* alphabet, cyclically
KeyOf(n, v) ==
    [i \in 1..n |-> KeyAlphabet[((i + v) % Len(KeyAlphabet)) + 1]]

AllKeys ==
    {KeyOf(n, v) : n \in 0..MaxKeyLen, v \in 0..(Len(KeyAlphabet) - 1)}
        \cup {SetMarker, MissingMarker}

\* messages of blanks, tabs and one letter
MsgAlphabet == {" ", "\t", "h"}
Msgs == StringsUpTo(MsgAlphabet, MaxMsgLen)

\* str(e) of the exception the remote call raised
ErrTexts ==
    {<<"t", "i", "m", "e", "o", "u", "t">>,
     <<"4", "0", "1", " ", "u", "n", "a", "u", "t", "h", "o", "r", "i",
       "z", "e", "d">>}


\* JSON request bodies of the chat handler, by what the handler can tell
\* apart: "bad" does not parse (or does not decode as UTF-8); "nonobj" parses
\* to a list, number, string or null; "nomsg" is an object without a message
\* field; "falsy" carries a message that is null, 0, false, [] or {};
\* "nonstr" carries a truthy message that is no string (123, [1], true);
\* "str" carries the string msg.
Body(shape, msg) == [shape |-> shape, msg |-> msg]

Bodies ==
    {Body(sh, Empty) : sh \in {"bad", "nonobj", "nomsg", "falsy", "nonstr"}}
        \cup {Body("str", m) : m \in Msgs}

\* what client.chat.completions.create does: returns a completion whose
\* message content is a string or null, or raises with an error text
Completion(content) == [kind |-> "content", isnull |-> FALSE, text |-> content]
NullCompletion == [kind |-> "content", isnull |-> TRUE, text |-> Empty]
Failure(text) == [kind |-> "raise", isnull |-> FALSE, text |-> text]

\* no remote call has been made
NoOutcome == [kind |-> "none", isnull |-> FALSE, text |-> Empty]

\* message contents of a completion: empty, whitespace only, a text with
\* whitespace around it, a text
Contents == {Empty, <<"\t">>, <<" ", "h", "\n">>, <<"h">>}

Outcomes ==
    {Completion(c) : c \in Contents} \cup {NullCompletion}
        \cup {Failure(e) : e \in ErrTexts}

\* ------------------------------------------------------------------ values
\* the values of _client_cache and of the accessor's result
SENTINEL == [tag |-> "SENTINEL", id |-> 0, key |-> Empty]
NoneVal == [tag |-> "None", id |-> 0, key |-> Empty]
Client(n, key) == [tag |-> "client", id |-> n, key |-> key]
\* a local that has not been assigned yet
Unset == [tag |-> "unset", id |-> 0, key |-> Empty]

IsClient(v) == v.tag = "client"

VARIABLES
    cache,        \* _client_cache
    OpenAI,       \* TRUE iff the name OpenAI is bound to the SDK class
    settingsKey,  \* settings.OPENAI_API_KEY ("" when absent)
    envKey,       \* os.getenv("OPENAI_API_KEY") ("" when absent)
    ctorRaises,   \* whether OpenAI(api_key=key) raises in this environment
    DEBUG,        \* settings.DEBUG
    pc,           \* per request thread: the line it is at
    req,          \* per request thread: the request it serves
    loc,          \* per request thread: its locals
    resp,         \* per request thread: its response
    ctorCalls,    \* number of calls of OpenAI(...) so far
    firstRet,     \* the value the first returning accessor call returned
    everCred,     \* whether a credential has been configured at any time
    envGood       \* whether SDK, credential and construction were fine all along

env == <<OpenAI, settingsKey, envKey, ctorRaises, DEBUG>>
hist == <<ctorCalls, firstRet, everCred, envGood>>
vars == <<cache, env, pc, req, loc, resp, hist>>

NoReq == [kind |-> "none", body |-> Body("none", Empty)]

NoLoc ==
    [user_msg |-> Empty, client |-> Unset, key_settings |-> Empty,
     key_env |-> Empty, key |-> Empty, unbuilt |-> FALSE, built |-> Unset,
     remote |-> 0, sent |-> << >>, out |-> NoOutcome]

NoResp ==
    [status |-> 0, raised |-> FALSE, reply |-> Empty, key_seen |-> Empty,
     sdk_installed |-> FALSE, has_key_in_settings |-> FALSE,
     has_key_in_env |-> FALSE, client_initialized |-> FALSE, debug |-> FALSE]

\* JsonResponse({"reply": text})
JsonReply(text) == [NoResp EXCEPT !.status = 200, !.reply = text]

\* HttpResponseBadRequest(text)
BadRequest(text) == [NoResp EXCEPT !.status = 400, !.reply = text]

\* an exception that leaves the view: the framework answers 500
Unhandled == [NoResp EXCEPT !.status = 500, !.raised = TRUE]

\* a plausible slip: the environment variable wins over the setting
ResolveKeyMut(sk, ek) == OrElse(ek, sk)

\* getattr(settings, "OPENAI_API_KEY", None) or os.getenv("OPENAI_API_KEY")
ResolveKey(sk, ek) == OrElse(sk, ek)

CredentialConfigured == Truthy(settingsKey) \/ Truthy(envKey)

EnvFine == OpenAI /\ CredentialConfigured /\ ~ctorRaises

Idle(t) == pc[t] = "idle"
AllIdle == \A t \in Threads : Idle(t)

\* the state after the module is imported, for credentials drawn from keys
InitWith(keys) ==
    /\ cache = SENTINEL
    /\ OpenAI \in BOOLEAN
    /\ \E k \in keys : settingsKey = k[1] /\ envKey = k[2]
    /\ ctorRaises \in BOOLEAN
    /\ DEBUG \in BOOLEAN
    /\ pc = [t \in Threads |-> "idle"]
    /\ req = [t \in Threads |-> NoReq]
    /\ loc = [t \in Threads |-> NoLoc]
    /\ resp = [t \in Threads |-> NoResp]
    /\ ctorCalls = 0
    /\ firstRet = Unset
    /\ everCred = CredentialConfigured
    /\ envGood = EnvFine


\* --------------------------------------------------------- the accessor
\* The accessor returns v to its caller, whose locals are l.  chat_health
\* goes on to build its report; _llm_reply tests "if not client" and returns
\* the offline fallback for None; any other caller just has the value.
ReturnTo(t, v, l) ==
    /\ loc' = [loc EXCEPT ![t] = [l EXCEPT !.client = v]]
    /\ firstRet' = IF firstRet = Unset THEN v ELSE firstRet
    /\ IF req[t].kind = "get"
       THEN pc' = [pc EXCEPT ![t] = "done"] /\ UNCHANGED resp
       ELSE IF req[t].kind = "health"
       THEN pc' = [pc EXCEPT ![t] = "L328"] /\ UNCHANGED resp
       ELSE IF ~IsClient(v)
       THEN /\ pc' = [pc EXCEPT ![t] = "done"]
            /\ resp' = [resp EXCEPT ![t] = JsonReply(OfflineFallback)]
       ELSE pc' = [pc EXCEPT ![t] = "L182"] /\ UNCHANGED resp

\* a plausible slip: a cached None is not treated as final
GetCheckRetry(t) ==
    /\ pc[t] = "L48"
    /\ IF IsClient(cache)
       THEN ReturnTo(t, cache, loc[t])
       ELSE /\ pc' = [pc EXCEPT ![t] = "L52"]
            /\ loc' = [loc EXCEPT ![t].unbuilt = TRUE]
            /\ UNCHANGED <<resp, firstRet>>
    /\ UNCHANGED <<cache, env, req, ctorCalls, everCred,
                   envGood>>

\* lines 48-49: if _client_cache is not _SENTINEL: return _client_cache
GetCheck(t) ==
    /\ pc[t] = "L48"
    /\ IF cache # SENTINEL
       THEN ReturnTo(t, cache, loc[t])
       ELSE /\ pc' = [pc EXCEPT ![t] = "L52"]
            /\ loc' = [loc EXCEPT ![t].unbuilt = TRUE]
            /\ UNCHANGED <<resp, firstRet>>
    /\ UNCHANGED <<cache, env, req, ctorCalls, everCred,
                   envGood>>

\* lines 52-53: if OpenAI is None: _client_cache = None
GetSdk(t) ==
    /\ pc[t] = "L52"
    /\ IF ~OpenAI
       THEN cache' = NoneVal /\ pc' = [pc EXCEPT ![t] = "L54"]
       ELSE pc' = [pc EXCEPT ![t] = "L57"] /\ UNCHANGED cache
    /\ UNCHANGED <<env, req, loc, resp, hist>>

\* a plausible slip: the test "if not key" is missing
GetKeyNoCheck(t) ==
    /\ pc[t] = "L57"
    /\ pc' = [pc EXCEPT ![t] = "L64"]
    /\ loc' = [loc EXCEPT ![t].key = ResolveKey(settingsKey, envKey)]
    /\ UNCHANGED <<cache, env, req, resp, hist>>

\* lines 57-59: key = settings or env; if not key: _client_cache = None
GetKey(t) ==
    /\ pc[t] = "L57"
    /\ LET key == ResolveKey(settingsKey, envKey)
       IN  IF ~Truthy(key)
           THEN /\ cache' = NoneVal
                /\ pc' = [pc EXCEPT ![t] = "L60"]
                /\ UNCHANGED loc
           ELSE /\ pc' = [pc EXCEPT ![t] = "L64"]
                /\ loc' = [loc EXCEPT ![t].key = key]
                /\ UNCHANGED cache
    /\ UNCHANGED <<env, req, resp, hist>>

\* line 64: client = OpenAI(api_key=key), which returns a new client or
\* raises into the except clause of line 68
GetCtor(t) ==
    /\ pc[t] = "L64"
    /\ ctorCalls' = ctorCalls + 1
    /\ IF ctorRaises
       THEN pc' = [pc EXCEPT ![t] = "L68"] /\ UNCHANGED loc
       ELSE /\ pc' = [pc EXCEPT ![t] = "L65"]
            /\ loc' = [loc EXCEPT ![t].built = Client(ctorCalls + 1, loc[t].key)]
    /\ UNCHANGED <<cache, env, req, resp, firstRet, everCred, envGood>>

\* a plausible slip: the new client is returned but never cached
GetStoreNoCache(t) ==
    /\ pc[t] = "L65"
    /\ pc' = [pc EXCEPT ![t] = "L66"]
    /\ UNCHANGED <<cache, env, req, loc, resp, hist>>

\* line 65: _client_cache = client
GetStore(t) ==
    /\ pc[t] = "L65"
    /\ cache' = loc[t].built
    /\ pc' = [pc EXCEPT ![t] = "L66"]
    /\ UNCHANGED <<env, req, loc, resp, hist>>

\* a plausible slip: a failed construction leaves the cache unbuilt for a retry
GetExceptReset(t) ==
    /\ pc[t] = "L68"
    /\ cache' = SENTINEL
    /\ pc' = [pc EXCEPT ![t] = "L70"]
    /\ UNCHANGED <<env, req, loc, resp, hist>>

\* lines 68-69: except Exception: _client_cache = None
GetExcept(t) ==
    /\ pc[t] = "L68"
    /\ cache' = NoneVal
    /\ pc' = [pc EXCEPT ![t] = "L70"]
    /\ UNCHANGED <<env, req, loc, resp, hist>>

\* lines 54-55, 60-61, 66-67, 70-71: after the cache has been written the
\* outcome is logged and the value that was written is returned: the new
\* client after line 65, None after lines 53, 59 and 69
GetReturn(t) ==
    /\ pc[t] \in {"L54", "L60", "L66", "L70"}
    /\ ReturnTo(t, IF pc[t] = "L66" THEN loc[t].built ELSE NoneVal, loc[t])
    /\ UNCHANGED <<cache, env, req, ctorCalls, everCred, envGood>>


\* ----------------------------------------------------- the reply resolver
\* a plausible slip: the empty completion is returned as it is
ReplyOfNoRecovery(out, debug) ==
    IF out.kind = "content"
    THEN Strip(IF out.isnull THEN Empty ELSE out.text)
    ELSE IF debug THEN DebugPrefix \o out.text ELSE SnagApology

\* a plausible slip: the error text is appended whatever the debug setting
ReplyOfLeaky(out, debug) ==
    IF out.kind = "content"
    THEN OrElse(Strip(IF out.isnull THEN Empty ELSE out.text), BlankedLine)
    ELSE DebugPrefix \o out.text

\* lines 192-199: the text _llm_reply returns for what the remote call did
ReplyOf(out, debug) ==
    IF out.kind = "content"
    THEN OrElse(Strip(IF out.isnull THEN Empty ELSE out.text), BlankedLine)
    ELSE IF debug THEN DebugPrefix \o out.text ELSE SnagApology

\* a plausible slip: a call that failed is made once more before giving up
LlmRemoteRetry(t, out) ==
    /\ pc[t] = "L191"
    /\ IF out.kind = "raise" /\ loc[t].remote = 1
       THEN /\ loc' = [loc EXCEPT ![t].remote = @ + 1,
                                  ![t].sent = Append(@, <<SYSTEM_PROMPT,
                                                          loc[t].user_msg>>)]
            /\ UNCHANGED <<resp, pc>>
       ELSE /\ loc' = [loc EXCEPT ![t].out = out]
            /\ resp' = [resp EXCEPT ![t] = JsonReply(ReplyOf(out, DEBUG))]
            /\ pc' = [pc EXCEPT ![t] = "done"]
    /\ UNCHANGED <<cache, env, req, hist>>

\* a plausible slip: a call that failed makes the accessor forget the client
LlmRemoteDropsClient(t, out) ==
    /\ pc[t] = "L191"
    /\ loc' = [loc EXCEPT ![t].out = out]
    /\ resp' = [resp EXCEPT ![t] = JsonReply(ReplyOf(out, DEBUG))]
    /\ pc' = [pc EXCEPT ![t] = "done"]
    /\ cache' = IF out.kind = "raise" THEN NoneVal ELSE cache
    /\ UNCHANGED <<env, req, hist>>

\* lines 182-191: client.chat.completions.create is called with the system
\* prompt and the user message; the thread then waits for the remote API
LlmCall(t) ==
    /\ pc[t] = "L182"
    /\ loc' = [loc EXCEPT ![t].remote = @ + 1,
                          ![t].sent = Append(@, <<SYSTEM_PROMPT, loc[t].user_msg>>)]
    /\ pc' = [pc EXCEPT ![t] = "L191"]
    /\ UNCHANGED <<cache, env, req, resp, hist>>

\* lines 191-199: the call returns a completion or raises (a timeout after 30
\* seconds included), and the reply is made of that outcome
LlmRemote(t, out) ==
    /\ pc[t] = "L191"
    /\ loc' = [loc EXCEPT ![t].out = out]
    /\ resp' = [resp EXCEPT ![t] = JsonReply(ReplyOf(out, DEBUG))]
    /\ pc' = [pc EXCEPT ![t] = "done"]
    /\ UNCHANGED <<cache, env, req, hist>>

\* lines 174-175: _llm_reply(user_msg) is entered and calls the accessor
BeginLlm(t, m) ==
    /\ pc[t] = "idle"
    /\ req' = [req EXCEPT ![t] = [kind |-> "llm", body |-> Body("str", m)]]
    /\ loc' = [loc EXCEPT ![t] = [NoLoc EXCEPT !.user_msg = m]]
    /\ resp' = [resp EXCEPT ![t] = NoResp]
    /\ pc' = [pc EXCEPT ![t] = "L48"]
    /\ UNCHANGED <<cache, env, ctorCalls, firstRet, everCred, envGood>>

\* ------------------------------------------------------- the chat handler
\* a plausible slip: the empty message is handed to the resolver
BeginChatNoNudge(t, body) ==
    /\ pc[t] = "idle"
    /\ req' = [req EXCEPT ![t] = [kind |-> "chat", body |-> body]]
    /\ IF body.shape = "bad"
       THEN /\ resp' = [resp EXCEPT ![t] = BadRequest(InvalidJson)]
            /\ loc' = [loc EXCEPT ![t] = NoLoc]
            /\ pc' = [pc EXCEPT ![t] = "done"]
       ELSE IF body.shape \in {"nonobj", "nonstr"}
       THEN /\ resp' = [resp EXCEPT ![t] = Unhandled]
            /\ loc' = [loc EXCEPT ![t] = NoLoc]
            /\ pc' = [pc EXCEPT ![t] = "done"]
       ELSE /\ resp' = [resp EXCEPT ![t] = NoResp]
            /\ loc' = [loc EXCEPT ![t] = [NoLoc EXCEPT !.user_msg = Strip(body.msg)]]
            /\ pc' = [pc EXCEPT ![t] = "L48"]
    /\ UNCHANGED <<cache, env, ctorCalls, firstRet, everCred, envGood>>

\* a plausible slip: the message is tested and passed on without strip()
BeginChatNoStrip(t, body) ==
    /\ pc[t] = "idle"
    /\ req' = [req EXCEPT ![t] = [kind |-> "chat", body |-> body]]
    /\ IF body.shape = "bad"
       THEN /\ resp' = [resp EXCEPT ![t] = BadRequest(InvalidJson)]
            /\ loc' = [loc EXCEPT ![t] = NoLoc]
            /\ pc' = [pc EXCEPT ![t] = "done"]
       ELSE IF body.shape \in {"nonobj", "nonstr"}
       THEN /\ resp' = [resp EXCEPT ![t] = Unhandled]
            /\ loc' = [loc EXCEPT ![t] = NoLoc]
            /\ pc' = [pc EXCEPT ![t] = "done"]
       ELSE LET user_msg == IF body.shape = "str" THEN body.msg ELSE Empty
            IN  IF ~Truthy(user_msg)
                THEN /\ resp' = [resp EXCEPT ![t] = JsonReply(NudgeReply)]
                     /\ loc' = [loc EXCEPT ![t] = NoLoc]
                     /\ pc' = [pc EXCEPT ![t] = "done"]
                ELSE /\ resp' = [resp EXCEPT ![t] = NoResp]
                     /\ loc' = [loc EXCEPT ![t] = [NoLoc EXCEPT !.user_msg = user_msg]]
                     /\ pc' = [pc EXCEPT ![t] = "L48"]
    /\ UNCHANGED <<cache, env, ctorCalls, firstRet, everCred, envGood>>

\* lines 289-300: the body is parsed (400 when it does not parse), the
\* message is fetched with data.get and stripped (an AttributeError leaves the
\* view when data has no get or the message no strip), the empty message is
\* answered with the nudge, any other goes to _llm_reply
BeginChat(t, body) ==
    /\ pc[t] = "idle"
    /\ req' = [req EXCEPT ![t] = [kind |-> "chat", body |-> body]]
    /\ IF body.shape = "bad"
       THEN /\ resp' = [resp EXCEPT ![t] = BadRequest(InvalidJson)]
            /\ loc' = [loc EXCEPT ![t] = NoLoc]
            /\ pc' = [pc EXCEPT ![t] = "done"]
       ELSE IF body.shape \in {"nonobj", "nonstr"}
       THEN /\ resp' = [resp EXCEPT ![t] = Unhandled]
            /\ loc' = [loc EXCEPT ![t] = NoLoc]
            /\ pc' = [pc EXCEPT ![t] = "done"]
       ELSE LET user_msg == Strip(IF body.shape = "str" THEN body.msg ELSE Empty)
            IN  IF ~Truthy(user_msg)
                THEN /\ resp' = [resp EXCEPT ![t] = JsonReply(NudgeReply)]
                     /\ loc' = [loc EXCEPT ![t] = NoLoc]
                     /\ pc' = [pc EXCEPT ![t] = "done"]
                ELSE /\ resp' = [resp EXCEPT ![t] = NoResp]
                     /\ loc' = [loc EXCEPT ![t] = [NoLoc EXCEPT !.user_msg = user_msg]]
                     /\ pc' = [pc EXCEPT ![t] = "L48"]
    /\ UNCHANGED <<cache, env, ctorCalls, firstRet, everCred, envGood>>

\* lines 312-319, chat_send: the body is parsed and the message stripped as
\* in chatbot_response, and the message, empty or not, goes to _llm_reply
BeginSend(t, body) ==
    /\ pc[t] = "idle"
    /\ req' = [req EXCEPT ![t] = [kind |-> "send", body |-> body]]
    /\ IF body.shape = "bad"
       THEN /\ resp' = [resp EXCEPT ![t] = BadRequest(InvalidJson)]
            /\ loc' = [loc EXCEPT ![t] = NoLoc]
            /\ pc' = [pc EXCEPT ![t] = "done"]
       ELSE IF body.shape \in {"nonobj", "nonstr"}
       THEN /\ resp' = [resp EXCEPT ![t] = Unhandled]
            /\ loc' = [loc EXCEPT ![t] = NoLoc]
            /\ pc' = [pc EXCEPT ![t] = "done"]
       ELSE LET msg == Strip(IF body.shape = "str" THEN body.msg ELSE Empty)
            IN  /\ resp' = [resp EXCEPT ![t] = NoResp]
                /\ loc' = [loc EXCEPT ![t] = [NoLoc EXCEPT !.user_msg = msg]]
                /\ pc' = [pc EXCEPT ![t] = "L48"]
    /\ UNCHANGED <<cache, env, ctorCalls, firstRet, everCred, envGood>>

\* ------------------------------------------------------- the health probe
\* lines 325-327: both credentials are read, then the accessor is called
BeginHealth(t) ==
    /\ pc[t] = "idle"
    /\ req' = [req EXCEPT ![t] = [kind |-> "health", body |-> Body("none", Empty)]]
    /\ loc' = [loc EXCEPT ![t] = [NoLoc EXCEPT !.key_settings = settingsKey,
                                               !.key_env = envKey]]
    /\ resp' = [resp EXCEPT ![t] = NoResp]
    /\ pc' = [pc EXCEPT ![t] = "L48"]
    /\ UNCHANGED <<cache, env, ctorCalls, firstRet, everCred, envGood>>

\* key_settings or key_env or ""
KeySeenOf(ks, ke) == Mask(OrElse(ks, OrElse(ke, Empty)))

\* lines 328-335: the report
HealthRespond(t) ==
    /\ pc[t] = "L328"
    /\ resp' = [resp EXCEPT ![t] =
                   [NoResp EXCEPT
                       !.status = 200,
                       !.sdk_installed = OpenAI,
                       !.has_key_in_settings = Truthy(loc[t].key_settings),
                       !.has_key_in_env = Truthy(loc[t].key_env),
                       !.key_seen = KeySeenOf(loc[t].key_settings, loc[t].key_env),
                       !.client_initialized = IsClient(loc[t].client),
                       !.debug = DEBUG]]
    /\ pc' = [pc EXCEPT ![t] = "done"]
    /\ UNCHANGED <<cache, env, req, loc, hist>>

\* ---------------------------------------------------------- environment
\* the response has been sent and the thread takes the next request
Finish(t) ==
    /\ pc[t] = "done"
    /\ pc' = [pc EXCEPT ![t] = "idle"]
    /\ req' = [req EXCEPT ![t] = NoReq]
    /\ loc' = [loc EXCEPT ![t] = NoLoc]
    /\ resp' = [resp EXCEPT ![t] = NoResp]
    /\ UNCHANGED <<cache, env, hist>>

\* the SDK binding, the credentials or the constructor's behaviour change
\* under the running process (os.environ, settings override, patched SDK)
EnvChange(sdk, sk, ek, raises) ==
    /\ <<sdk, sk, ek, raises>> # <<OpenAI, settingsKey, envKey, ctorRaises>>
    /\ OpenAI' = sdk
    /\ settingsKey' = sk
    /\ envKey' = ek
    /\ ctorRaises' = raises
    /\ everCred' = (everCred \/ Truthy(sk) \/ Truthy(ek))
    /\ envGood' = (envGood /\ sdk /\ (Truthy(sk) \/ Truthy(ek)) /\ ~raises)
    /\ UNCHANGED <<cache, DEBUG, pc, req, loc, resp, ctorCalls, firstRet>>

\* lines 40-45: the accessor is called by some other caller
BeginGet(t) ==
    /\ pc[t] = "idle"
    /\ req' = [req EXCEPT ![t] = [kind |-> "get", body |-> Body("none", Empty)]]
    /\ loc' = [loc EXCEPT ![t] = NoLoc]
    /\ resp' = [resp EXCEPT ![t] = NoResp]
    /\ pc' = [pc EXCEPT ![t] = "L48"]
    /\ UNCHANGED <<cache, env, ctorCalls, firstRet, everCred, envGood>>

\* the steps of a call of the accessor
Accessor(t) ==
    \/ GetCheck(t)
    \/ GetSdk(t)
    \/ GetKey(t)
    \/ GetCtor(t)
    \/ GetStore(t)
    \/ GetExcept(t)
    \/ GetReturn(t)

\* ------------------------------------------------------- specifications
\* Requests served one after the other by one thread; the environment
\* changes between them.
SeqThreads == {t \in Threads : \A u \in Threads : t <= u}
SeqKeys == {Empty, KeyOf(MaxKeyLen, 0), KeyOf(MaxKeyLen, 1)}

Init == InitWith(SeqKeys \X SeqKeys)

Next ==
    \/ \E t \in SeqThreads : Accessor(t)
    \/ \E t \in SeqThreads : LlmCall(t)
    \/ \E t \in SeqThreads, out \in Outcomes : LlmRemote(t, out)
    \/ \E t \in SeqThreads : HealthRespond(t)
    \/ \E t \in SeqThreads : Finish(t)
    \/ \E t \in SeqThreads, body \in Bodies : BeginChat(t, body)
    \/ \E t \in SeqThreads, body \in Bodies : BeginSend(t, body)
    \/ \E t \in SeqThreads, m \in Msgs : BeginLlm(t, m)
    \/ \E t \in SeqThreads : BeginHealth(t)
    \/ \E sdk \in BOOLEAN, sk \in SeqKeys, ek \in SeqKeys, raises \in BOOLEAN :
           AllIdle /\ EnvChange(sdk, sk, ek, raises)

Spec == Init /\ [][Next]_vars

\* Accessor calls by concurrent threads; the environment changes while no call
\* is in flight.  The credential is in the settings or nowhere.
ConcKeys == {Empty, KeyOf(MaxKeyLen, 0)}

\* settings.py line 13: DEBUG = True, which the accessor never reads
InitConc == InitWith(ConcKeys \X {Empty}) /\ DEBUG

NextConc ==
    \/ \E t \in Threads : Accessor(t)
    \/ \E t \in Threads : Finish(t)
    \/ \E t \in Threads : BeginGet(t)
    \/ \E sdk \in BOOLEAN, sk \in ConcKeys, raises \in BOOLEAN :
           AllIdle /\ EnvChange(sdk, sk, Empty, raises)

SpecConc == InitConc /\ [][NextConc]_vars

\* Health probes served one after the other, for every credential.
InitMask ==
    InitWith((AllKeys \X {Empty}) \cup (SeqKeys \X AllKeys))

NextMask ==
    \/ \E t \in SeqThreads : Accessor(t)
    \/ \E t \in SeqThreads : HealthRespond(t)
    \/ \E t \in SeqThreads : Finish(t)
    \/ \E t \in SeqThreads : BeginHealth(t)

SpecMask == InitMask /\ [][NextMask]_vars

\* Two request threads in an unchanging environment, each taking up a request
\* at any time, whatever the other is doing; a response is kept for
\* comparison until its thread takes the next request.
\* The low thread is given any message of tabs and one letter, the high thread
\* such a message without its surrounding whitespace, or a health probe.
Low == CHOOSE t \in Threads : \A u \in Threads : t <= u
High == CHOOSE t \in Threads : \A u \in Threads : u <= t
Pair == {Low, High}
PairMsgs == StringsUpTo({"\t", "h"}, MaxMsgLen)
Trimmed == {Strip(m) : m \in PairMsgs}
PairOutcomes ==
    {Completion(<<"h">>), Completion(<<" ">>), NullCompletion,
     Failure(<<"t", "i", "m", "e", "o", "u", "t">>)}

InitPair == InitWith(ConcKeys \X {Empty})

NextPair ==
    \/ \E t \in Pair : Accessor(t)
    \/ \E t \in Pair : LlmCall(t)
    \/ \E t \in Pair, out \in PairOutcomes : LlmRemote(t, out)
    \/ \E t \in Pair : HealthRespond(t)
    \/ \E t \in Pair : Finish(t)
    \/ BeginHealth(High)
    \/ \E m \in PairMsgs : BeginChat(Low, Body("str", m))
    \/ \E m \in PairMsgs : BeginLlm(Low, m)
    \/ \E m \in Trimmed : BeginChat(High, Body("str", m))
    \/ \E m \in Trimmed : BeginLlm(High, m)

SpecPair == InitPair /\ [][NextPair]_vars

\* ================================================================ claims
\* the accessor has returned to the request t is serving
Returned(t) == loc[t].client # Unset
\* the accessor returns to t in this step
Returns(t) == loc[t].client = Unset /\ loc'[t].client # Unset
Done(t) == pc[t] = "done"
\* t is serving a request that entered the reply resolver
InResolver(t) == req[t].kind \in {"llm", "chat", "send"} /\ Returned(t)
\* the credential the accessor is to use: the setting, else the environment
Credential == IF settingsKey # Empty THEN settingsKey ELSE envKey
\* s occurs in r as a contiguous piece
Contains(r, s) ==
    \E i \in 1..(Len(r) - Len(s) + 1) : SubSeq(r, i, i + Len(s) - 1) = s

\* C1: in a sequence of calls, once the first accessor call has returned,
\* every later call returns that same value, the constructor is never called
\* again and the cache never becomes unbuilt again, whatever the SDK binding
\* and the credentials have become in between.
C1_FirstResultIsFinal ==
    [][firstRet # Unset =>
          /\ firstRet' = firstRet
          /\ ctorCalls' = ctorCalls
          /\ cache' # SENTINEL
          /\ \A t \in Threads : Returns(t) => loc'[t].client = firstRet]_vars

\* a later call returns the cached None although the environment would by
\* now allow a client to be built
C1_Witness ==
    \E t \in Threads :
        /\ Returned(t)
        /\ ~loc[t].unbuilt
        /\ firstRet = NoneVal
        /\ loc[t].client = NoneVal
        /\ EnvFine
        /\ ctorCalls = 1

\* C2: a call that finds the cache unbuilt never raises; it returns a client
\* made with the credential (setting first, environment second) and leaves it
\* in the cache exactly when the SDK is bound, the credential is not empty and
\* the constructor does not raise, and otherwise returns None and leaves None
\* in the cache.
C2_FirstCallOutcome ==
    \A t \in Threads :
        (loc[t].unbuilt /\ Returned(t)) =>
            /\ ~resp[t].raised
            /\ cache = loc[t].client
            /\ IF OpenAI /\ Credential # Empty /\ ~ctorRaises
               THEN IsClient(loc[t].client) /\ loc[t].client.key = Credential
               ELSE loc[t].client = NoneVal

\* a first call that built the client with the setting although the
\* environment holds another credential
C2_Witness ==
    \E t \in Threads :
        /\ loc[t].unbuilt
        /\ Returned(t)
        /\ IsClient(cache)
        /\ envKey # Empty
        /\ settingsKey # Empty
        /\ settingsKey # envKey

\* C3 as stated: under concurrent calls the constructor is called at most once
\* and the cache, once it has left the unbuilt state, never changes.
C3_BuiltOnceNeverChanges ==
    [][ctorCalls' <= 1 /\ (cache # SENTINEL => cache' = cache)]_vars

\* C3 as amended: under concurrent calls of NumThreads threads the constructor
\* is called at most NumThreads times, the cache never returns to the unbuilt
\* state, and its value is changed only by a call that had found it unbuilt.
C3_BuiltPerRacingCall ==
    [][/\ ctorCalls' <= NumThreads
       /\ cache # SENTINEL => cache' # SENTINEL
       /\ cache' # cache =>
             \E t \in Threads : pc[t] \in {"L52", "L57", "L65", "L68"}
                                /\ pc'[t] # pc[t]
                                /\ loc[t].unbuilt]_vars

\* every thread has built a client of its own and the cache holds another
\* client than the one the first call returned
C3_Witness ==
    /\ ctorCalls = NumThreads
    /\ IsClient(firstRet)
    /\ IsClient(cache)
    /\ cache # firstRet

\* C4: while the SDK is bound, a credential is configured and the constructor
\* succeeds, concurrent calls of NumThreads threads call the constructor at
\* most NumThreads times, every call returns a client, and once a call has
\* returned and no call is in flight the cache holds a client.
C4_RaceYieldsClients ==
    envGood =>
        /\ ctorCalls <= NumThreads
        /\ \A t \in Threads : Returned(t) => IsClient(loc[t].client)
        /\ (firstRet # Unset /\ \A t \in Threads : pc[t] \in {"idle", "done"})
               => IsClient(cache)

\* every thread raced through the constructor and holds a client of its own
C4_Witness ==
    /\ envGood
    /\ ctorCalls = NumThreads
    /\ \A t \in Threads : Done(t) /\ IsClient(loc[t].client)
    /\ \A t, u \in Threads : t # u => loc[t].client # loc[u].client

\* C5: the reply resolver never raises and returns a non-empty string, for
\* every cache state, remote outcome and debug setting.
C5_ReplyNeverEmpty ==
    \A t \in Threads :
        (Done(t) /\ InResolver(t)) =>
            /\ ~resp[t].raised
            /\ resp[t].reply # Empty

\* the remote call answered with an empty, blank or null content
C5_Witness ==
    \E t \in Threads :
        /\ Done(t)
        /\ InResolver(t)
        /\ loc[t].out.kind = "content"
        /\ Strip(loc[t].out.text) = Empty
        /\ resp[t].reply = BlankedLine

\* C6 as stated: a call of the resolver made while no credential is
\* configured returns the offline fallback and makes no remote call.
C6_NoCredentialNowMeansFallback ==
    \A t \in Threads :
        (Done(t) /\ InResolver(t) /\ loc[t].user_msg # Empty
             /\ settingsKey = Empty /\ envKey = Empty) =>
            /\ resp[t].reply = OfflineFallback
            /\ loc[t].remote = 0

\* C6 as amended: as long as no credential has been configured at any time
\* since the process started, every call of the resolver returns the offline
\* fallback and makes no remote call.
C6_NeverCredentialMeansFallback ==
    \A t \in Threads :
        (Done(t) /\ InResolver(t) /\ loc[t].user_msg # Empty /\ ~everCred) =>
            /\ resp[t].reply = OfflineFallback
            /\ loc[t].remote = 0

\* a later call, served from the cached None, with the SDK bound
C6_Witness ==
    \E t \in Threads :
        /\ Done(t)
        /\ InResolver(t)
        /\ loc[t].user_msg # Empty
        /\ ~everCred
        /\ OpenAI
        /\ ~loc[t].unbuilt
        /\ resp[t].reply = OfflineFallback

\* C7: a POST to the chat handler ends with 400 when the body does not parse
\* and with 200 and a reply for every body that parses; no exception leaves
\* the handler.
C7_Only400Or200 ==
    \A t \in Threads :
        (Done(t) /\ req[t].kind = "chat") =>
            /\ ~resp[t].raised
            /\ resp[t].status = (IF req[t].body.shape = "bad" THEN 400 ELSE 200)
            /\ resp[t].status = 200 => resp[t].reply # Empty

\* C8: a POST whose message is missing, empty or blank is answered 200 with
\* the nudge, without a remote call, in every cache state.
C8_EmptyMessageNudged ==
    \A t \in Threads :
        (Done(t) /\ req[t].kind = "chat"
             /\ req[t].body.shape \in {"str", "nomsg", "falsy"}
             /\ Strip(req[t].body.msg) = Empty) =>
            /\ resp[t].status = 200
            /\ resp[t].reply = NudgeReply
            /\ loc[t].remote = 0
            /\ loc[t].sent = << >>

\* a blank message nudged while the cache holds a client
C8_Witness ==
    \E t \in Threads :
        /\ Done(t)
        /\ req[t].kind = "chat"
        /\ req[t].body = Body("str", <<"\t">>)
        /\ IsClient(cache)
        /\ resp[t].reply = NudgeReply

\* C9: when the remote call fails, the reply is the apology alone, the same
\* for every error and without the error text in it, if debug is off, and
\* contains the error text if debug is on.
C9_ErrorTextOnlyInDebug ==
    \A t \in Threads :
        (Done(t) /\ loc[t].out.kind = "raise") =>
            IF DEBUG
            THEN Contains(resp[t].reply, loc[t].out.text)
            ELSE /\ resp[t].reply = SnagApology
                 /\ ~Contains(resp[t].reply, loc[t].out.text)

\* a failed remote call answered with debug off
C9_Witness ==
    \E t \in Threads :
        /\ Done(t)
        /\ loc[t].out.kind = "raise"
        /\ ~DEBUG
        /\ resp[t].status = 200

\* the shape of the preview of the credential raw
MaskShape(raw, seen) ==
    /\ Len(raw) > 8 =>
           /\ Len(seen) = 9
           /\ SubSeq(seen, 1, 4) = SubSeq(raw, 1, 4)
           /\ seen[5] = "U+2026"
           /\ SubSeq(seen, 6, 9) = SubSeq(raw, Len(raw) - 3, Len(raw))
    /\ Len(raw) \in 1..8 => seen = SetMarker
    /\ Len(raw) = 0 => seen = MissingMarker

\* C10 as stated: key_seen never equals the credential; it is the first 4 and
\* last 4 characters around an ellipsis for a credential of more than 8
\* characters, "(set)" for one of 1 to 8, "(missing)" for none.
C10_PreviewNeverTheKey ==
    \A t \in Threads :
        (Done(t) /\ req[t].kind = "health") =>
            LET raw == IF loc[t].key_settings # Empty
                       THEN loc[t].key_settings ELSE loc[t].key_env
            IN  /\ MaskShape(raw, resp[t].key_seen)
                /\ resp[t].key_seen # raw

\* C10 as amended: key_seen has that shape, and it equals the credential only
\* when the credential is the text "(set)" or has 9 characters, the fifth of
\* them the ellipsis.
C10_PreviewShape ==
    \A t \in Threads :
        (Done(t) /\ req[t].kind = "health") =>
            LET raw == IF loc[t].key_settings # Empty
                       THEN loc[t].key_settings ELSE loc[t].key_env
            IN  /\ MaskShape(raw, resp[t].key_seen)
                /\ resp[t].key_seen = raw =>
                       \/ raw = SetMarker
                       \/ Len(raw) = 9 /\ raw[5] = "U+2026"

\* a credential longer than the preview, taken from the environment
C10_Witness ==
    \E t \in Threads :
        /\ Done(t)
        /\ req[t].kind = "health"
        /\ loc[t].key_settings = Empty
        /\ Len(loc[t].key_env) > 9
        /\ resp[t].key_seen # loc[t].key_env

\* the low and the high thread have served a request of kind k, the high
\* thread's message being the low thread's without its surrounding blanks
SamePadded(k) ==
    /\ Done(Low) /\ Done(High)
    /\ req[Low].kind = k /\ req[High].kind = k
    /\ req[High].body.msg = Strip(req[Low].body.msg)

\* the two requests made the same remote requests, each the system prompt
\* followed by the message without blanks, and on the same remote outcome
\* gave the same reply
SameBehaviour ==
    /\ loc[Low].sent = loc[High].sent
    /\ \A i \in 1..Len(loc[Low].sent) :
           loc[Low].sent[i] = <<SYSTEM_PROMPT, Strip(req[Low].body.msg)>>
    /\ loc[Low].out = loc[High].out => resp[Low].reply = resp[High].reply

\* C11 as stated: the reply resolver called with a padded message behaves as
\* when called with the trimmed message: same remote request, carrying the
\* trimmed message after the system prompt, and same reply.
C11_ResolverTrims == SamePadded("llm") => SameBehaviour

\* C11 as amended: the chat handler given a padded message behaves as when
\* given the trimmed message: same remote request, carrying the trimmed
\* message after the system prompt, and same reply.
C11_HandlerTrims == SamePadded("chat") => SameBehaviour

\* a padded and a trimmed message both sent to the remote API by the handler
C11_Witness ==
    /\ SamePadded("chat")
    /\ req[Low].body.msg # req[High].body.msg
    /\ loc[Low].remote = 1
    /\ loc[High].remote = 1
    /\ loc[Low].out = loc[High].out

\* the chat request of t carries a message that is not empty once trimmed
HasMessage(t) == req[t].body.shape = "str" /\ Strip(req[t].body.msg) # Empty

\* C12: a request makes at most one remote call, and none before it is
\* waiting for the remote API; a request of the chat handler has made exactly
\* one when the accessor gave it a client and its message is not empty, none
\* otherwise; a call that fails is not made again, and the request then ends
\* with a 200 reply carrying the fallback text, not with an exception.
C12_AtMostOneRemoteCall ==
    \A t \in Threads :
        /\ loc[t].remote <= 1
        /\ Len(loc[t].sent) = loc[t].remote
        /\ loc[t].remote = 1 <=> (pc[t] = "L191" \/ loc[t].out # NoOutcome)
        /\ pc[t] = "L191" => loc[t].out = NoOutcome
        /\ (req[t].kind = "chat" /\ Done(t)) =>
               loc[t].remote =
                   IF IsClient(loc[t].client) /\ HasMessage(t) THEN 1 ELSE 0
        /\ loc[t].out.kind = "raise" =>
               /\ Done(t)
               /\ ~resp[t].raised
               /\ resp[t].status = 200
               /\ resp[t].reply =
                      IF DEBUG THEN DebugPrefix \o loc[t].out.text
                      ELSE SnagApology

\* a chat request whose one remote call failed has been answered
C12_Witness ==
    \E t \in Threads :
        /\ req[t].kind = "chat"
        /\ Done(t)
        /\ HasMessage(t)
        /\ loc[t].out.kind = "raise"
        /\ loc[t].remote = 1
        /\ ~resp[t].raised

\* C13: the step in which a remote call fails leaves the cache as it was,
\* holding a client; while the failed request's answer stands the cache keeps
\* holding a client, and a request that calls the accessor then is handed the
\* cached client, goes on to the remote call and makes it, instead of
\* answering with the offline fallback.
C13_FailedCallKeepsClient ==
    [][\A t \in Pair :
          /\ (pc[t] = "L191" /\ loc'[t].out.kind = "raise") =>
                 /\ cache' = cache
                 /\ IsClient(cache)
          /\ (Done(t) /\ loc[t].out.kind = "raise") =>
                 /\ IsClient(cache')
                 /\ \A u \in Pair \ {t} :
                        /\ (pc[u] = "L48" /\ pc'[u] # "L48") =>
                               /\ loc'[u].client = cache
                               /\ IsClient(cache)
                               /\ req[u].kind # "health" => pc'[u] = "L182"
                        /\ (pc[u] = "L182" /\ pc'[u] # "L182") =>
                               /\ pc'[u] = "L191"
                               /\ loc'[u].remote = 1
                               /\ resp'[u].reply # OfflineFallback]_vars

\* a request that found the cache built has made a remote call of its own
\* with the cached client, next to a request whose remote call failed
C13_Witness ==
    /\ Done(Low)
    /\ loc[Low].out.kind = "raise"
    /\ req[High].kind = "chat"
    /\ ~loc[High].unbuilt
    /\ loc[High].client = cache
    /\ loc[High].remote = 1
    /\ Done(High)
    /\ loc[High].out.kind = "content"

====
